---- MODULE Spec2Model ----
(***************************************************************************)
(* Model of the `strict` crate: NonEmptyVec, NonEmptySlice and OneToThree. *)
(*                                                                         *)
(* A Rust Vec<T> / &[T] is a TLA+ sequence (index 0 of the code is index 1 *)
(* of the sequence).  Option<T> and Result<T, E> are records               *)
(* [kind, val]; a call that panics has the outcome kind "Panic".           *)
(*                                                                         *)
(* Two specifications:                                                     *)
(*   SpecVec : the life of one NonEmptyVec (and of a NonEmptySlice         *)
(*             borrowed from the same source Vec)                          *)
(*   SpecFew : the life of one OneToThree and of an iterator over it       *)
(***************************************************************************)
EXTENDS Integers, Sequences, FiniteSets, TLC

VARIABLES
    src,      \* the Vec<T> a NonEmptyVec / NonEmptySlice is built from
    phase,    \* "source" | "live" | "failed" | "taken" | "panicked"
    vec,      \* NonEmptyVec.vec
    slice,    \* outcome of the last NonEmptySlice::try_from(&src), or NoSlice
    last,     \* the last call on the NonEmptyVec: op, arguments, vec before, outcome
    few,      \* the OneToThree value
    iter,     \* the OneToThreeIter over few: [live, idx], or NoIter
    yielded,  \* outcomes of the next() calls made on the live iterator
    fout,     \* the last call on the OneToThree: op, input, outcome
    overflow_checks \* build profile: TRUE = debug (overflow panics), FALSE = release (wraps)

vecVars == <<src, phase, vec, slice, last>>
fewVars == <<few, iter, yielded, fout, overflow_checks>>
vars == <<src, phase, vec, slice, last, few, iter, yielded, fout, overflow_checks>>

----------------------------------------------------------------------------
(* Bounds of the model *)

\* longest Vec held by a NonEmptyVec / given to a conversion
MaxLen == 4
\* element values are 1..MaxElem
MaxElem == 2

Elems == 1..MaxElem
\* indices handed to insert / remove / swap_remove / index: in and out of range
Indices == 0..(MaxLen + 1)

RECURSIVE SeqsUpTo(_)
SeqsUpTo(n) ==
    IF n = 0 THEN {<<>>}
    ELSE LET shorter == SeqsUpTo(n - 1)
         IN  shorter \cup {Append(s, e) : s \in {t \in shorter : Len(t) = n - 1}, e \in Elems}

Vecs == SeqsUpTo(MaxLen)

----------------------------------------------------------------------------
(* Option / Result / panic outcomes.  val is 0 where the outcome carries no element *)

None == [kind |-> "None", val |-> 0]
Some(x) == [kind |-> "Some", val |-> x]
Ok(x) == [kind |-> "Ok", val |-> x]
Unit == [kind |-> "Unit", val |-> 0]
Panic == [kind |-> "Panic", val |-> 0]
NotEnoughElementsError == [kind |-> "NotEnoughElementsError", val |-> 0]

----------------------------------------------------------------------------
(* std::vec::Vec operations the wrappers delegate to: each gives the vector *)
(* after the call and the call's outcome.  The bounds assertions of insert, *)
(* remove and swap_remove come before any mutation.                         *)

RemoveAt(v, i) == SubSeq(v, 1, i) \o SubSeq(v, i + 2, Len(v))

Vec_push(v, value) == [vec |-> Append(v, value), ret |-> Unit]

Vec_insert(v, idx, value) ==
    IF idx > Len(v) THEN [vec |-> v, ret |-> Panic]
    ELSE [vec |-> SubSeq(v, 1, idx) \o <<value>> \o SubSeq(v, idx + 1, Len(v)), ret |-> Unit]

Vec_pop(v) ==
    IF Len(v) = 0 THEN [vec |-> v, ret |-> None]
    ELSE [vec |-> SubSeq(v, 1, Len(v) - 1), ret |-> Some(v[Len(v)])]

Vec_remove(v, idx) ==
    IF idx >= Len(v) THEN [vec |-> v, ret |-> Panic]
    ELSE [vec |-> RemoveAt(v, idx), ret |-> Ok(v[idx + 1])]

Vec_swap_remove(v, idx) ==
    IF idx >= Len(v) THEN [vec |-> v, ret |-> Panic]
    ELSE LET swapped == [v EXCEPT ![idx + 1] = v[Len(v)]]
         IN  [vec |-> SubSeq(swapped, 1, Len(v) - 1), ret |-> Ok(v[idx + 1])]

----------------------------------------------------------------------------
(* NonEmptyVec<T> *)

NonEmptyVec_len(v) == Len(v)

NonEmptyVec_has_len(v, len) == Len(v) = len

NonEmptyVec_first(v) == v[1]

NonEmptyVec_last(v) == v[Len(v)]

as_slice(v) == v

\* take(self): drain(..).next().unwrap(); the container is consumed
take(v) == IF Len(v) = 0 THEN [vec |-> <<>>, ret |-> Panic]
           ELSE [vec |-> <<>>, ret |-> Ok(v[1])]

push(v, value) == Vec_push(v, value)

insert(v, insertion_idx, value) == Vec_insert(v, insertion_idx, value)

\* pop without the test for a single element
pop_unguarded(v) == Vec_pop(v)

\* pop refusing at two elements already
pop_guard_off_by_one(v) ==
    IF Len(v) <= 2 THEN [vec |-> v, ret |-> None]
    ELSE Vec_pop(v)

pop(v) ==
    IF Len(v) = 1 THEN [vec |-> v, ret |-> None]
    ELSE Vec_pop(v)

\* remove without the test for a single element
remove_unguarded(v, idx) == Vec_remove(v, idx)

remove(v, idx) ==
    IF Len(v) = 1 THEN [vec |-> v, ret |-> NotEnoughElementsError]
    ELSE Vec_remove(v, idx)

\* swap_remove with the index checked before the length
swap_remove_bounds_first(v, idx) ==
    IF idx >= Len(v) THEN [vec |-> v, ret |-> Panic]
    ELSE IF Len(v) = 1 THEN [vec |-> v, ret |-> NotEnoughElementsError]
    ELSE Vec_swap_remove(v, idx)

swap_remove(v, idx) ==
    IF Len(v) = 1 THEN [vec |-> v, ret |-> NotEnoughElementsError]
    ELSE Vec_swap_remove(v, idx)

\* IndexMut: vec[index] = value (a slice index, bounds-checked)
index_mut(v, index, value) ==
    IF index >= Len(v) THEN [vec |-> v, ret |-> Panic]
    ELSE [vec |-> [v EXCEPT ![index + 1] = value], ret |-> Unit]

\* try_from accepting any Vec
NonEmptyVec_try_from_unchecked(v) == [vec |-> v, ret |-> Unit]

\* TryFrom<Vec<T>>
NonEmptyVec_try_from(v) ==
    IF v = <<>> THEN [vec |-> <<>>, ret |-> NotEnoughElementsError]
    ELSE [vec |-> v, ret |-> Unit]

\* From<T>
NonEmptyVec_from(value) == [vec |-> <<value>>, ret |-> Unit]

----------------------------------------------------------------------------
(* NonEmptySlice<'a, T> *)

\* TryFrom<&'a [T]>
NonEmptySlice_try_from(s) ==
    IF s = <<>> THEN [slice |-> <<>>, ret |-> NotEnoughElementsError]
    ELSE [slice |-> s, ret |-> Unit]

NonEmptySlice_as_slice(s) == s

NonEmptySlice_len(s) == Len(s)

----------------------------------------------------------------------------
(* OneToThree<T>: a record [tag, a], [tag, a, b] or [tag, a, b, c] *)

\* element values of a OneToThree are 1..MaxFewElem
MaxFewElem == 3
\* longest Vec given to OneToThree::try_from
MaxSrcLen == 5
\* width of usize in bits, scaled down from 64 (or 32) so that the iterator's
\* counter can be driven to its overflow
UsizeBits == 3

FewElems == 1..MaxFewElem
UsizeModulus == 2 ^ UsizeBits
UsizeMax == UsizeModulus - 1

RECURSIVE FewSeqsUpTo(_)
FewSeqsUpTo(n) ==
    IF n = 0 THEN {<<>>}
    ELSE LET shorter == FewSeqsUpTo(n - 1)
         IN  shorter \cup {Append(s, e) : s \in {t \in shorter : Len(t) = n - 1}, e \in FewElems}

FewVecs == FewSeqsUpTo(MaxSrcLen)

Err(e) == [kind |-> "Err", val |-> e]

one(a) == [tag |-> "One", a |-> a]
two(a, b) == [tag |-> "Two", a |-> a, b |-> b]
three(a, b, c) == [tag |-> "Three", a |-> a, b |-> b, c |-> c]

OneToThree_len(x) ==
    CASE x.tag = "One" -> 1
      [] x.tag = "Two" -> 2
      [] x.tag = "Three" -> 3

OneToThree_first(x) ==
    CASE x.tag = "One" -> x.a
      [] x.tag = "Two" -> x.a
      [] x.tag = "Three" -> x.a

\* get(&self, i): match (i, self)
get(i, x) ==
    CASE i = 0 -> Some(OneToThree_first(x))
      [] i = 1 /\ x.tag = "Two" -> Some(x.b)
      [] i = 1 /\ x.tag = "Three" -> Some(x.b)
      [] i = 2 /\ x.tag = "Three" -> Some(x.c)
      [] OTHER -> None

to_vec(x) ==
    CASE x.tag = "One" -> <<x.a>>
      [] x.tag = "Two" -> <<x.a, x.b>>
      [] x.tag = "Three" -> <<x.a, x.b, x.c>>

\* sorted with the last leaf of the tree giving (c, a, b)
sorted_last_branch_swapped(x) ==
    CASE x.tag = "One" -> one(x.a)
      [] x.tag = "Two" -> IF x.a < x.b THEN two(x.a, x.b) ELSE two(x.b, x.a)
      [] x.tag = "Three" ->
            LET a == x.a
                b == x.b
                c == x.c
            IN  IF a < b
                THEN IF b < c THEN three(a, b, c)
                     ELSE IF a < c THEN three(a, c, b)
                     ELSE three(c, a, b)
                ELSE IF a < c THEN three(b, a, c)
                ELSE IF b < c THEN three(b, c, a)
                ELSE three(c, a, b)

\* sorted(self): the decision tree on a < b, b < c, a < c
sorted(x) ==
    CASE x.tag = "One" -> one(x.a)
      [] x.tag = "Two" -> IF x.a < x.b THEN two(x.a, x.b) ELSE two(x.b, x.a)
      [] x.tag = "Three" ->
            LET a == x.a
                b == x.b
                c == x.c
            IN  IF a < b
                THEN IF b < c THEN three(a, b, c)
                     ELSE IF a < c THEN three(a, c, b)
                     ELSE three(c, a, b)
                ELSE IF a < c THEN three(b, a, c)
                ELSE IF b < c THEN three(b, c, a)
                ELSE three(c, b, a)

\* map(self, f): f is total
map(x, f) ==
    CASE x.tag = "One" -> one(f[x.a])
      [] x.tag = "Two" -> two(f[x.a], f[x.b])
      [] x.tag = "Three" -> three(f[x.a], f[x.b], f[x.c])

IsErr(r) == r.kind = "Err"

\* every slot is transformed before any failure is looked at
try_map_eager(x, f) ==
    LET slots == to_vec(x)
        outs == [i \in 1..Len(slots) |-> f[slots[i]]]
        bad == {i \in 1..Len(slots) : IsErr(outs[i])}
    IN  IF bad = {}
        THEN [ret |-> Ok(map(x, [e \in FewElems |-> f[e].val])), calls |-> slots]
        ELSE [ret |-> outs[CHOOSE i \in bad : \A j \in bad : i <= j], calls |-> slots]

\* try_map(self, f): the arguments f(a)?, f(b)?, f(c)? are evaluated left to
\* right and the first Err returns at once.  calls lists the slots f was applied to.
try_map(x, f) ==
    LET ra == f[x.a] IN
    IF IsErr(ra) THEN [ret |-> ra, calls |-> <<x.a>>]
    ELSE IF x.tag = "One" THEN [ret |-> Ok(one(ra.val)), calls |-> <<x.a>>]
    ELSE LET rb == f[x.b] IN
    IF IsErr(rb) THEN [ret |-> rb, calls |-> <<x.a, x.b>>]
    ELSE IF x.tag = "Two" THEN [ret |-> Ok(two(ra.val, rb.val)), calls |-> <<x.a, x.b>>]
    ELSE LET rc == f[x.c] IN
    IF IsErr(rc) THEN [ret |-> rc, calls |-> <<x.a, x.b, x.c>>]
    ELSE [ret |-> Ok(three(ra.val, rb.val, rc.val)), calls |-> <<x.a, x.b, x.c>>]

EmptyVec == [kind |-> "Err", val |-> "Empty vec"]

\* try_from filling the slots in the order of the pops
OneToThree_try_from_reversed(v) ==
    LET p1 == Vec_pop(v) IN
    IF p1.ret = None THEN EmptyVec
    ELSE LET c == p1.ret.val
             p2 == Vec_pop(p1.vec)
         IN  IF p2.ret # None
             THEN LET b == p2.ret.val
                      p3 == Vec_pop(p2.vec)
                  IN  IF p3.ret # None
                      THEN Ok(three(c, b, p3.ret.val))
                      ELSE Ok(two(c, b))
             ELSE Ok(one(c))

\* try_from keeping the front of the Vec
OneToThree_try_from_front(v) ==
    IF Len(v) = 0 THEN EmptyVec
    ELSE IF Len(v) = 1 THEN Ok(one(v[1]))
    ELSE IF Len(v) = 2 THEN Ok(two(v[1], v[2]))
    ELSE Ok(three(v[1], v[2], v[3]))

\* TryFrom<Vec<T>>: c, b and a are popped from the end of v
OneToThree_try_from(v) ==
    LET p1 == Vec_pop(v) IN
    IF p1.ret = None THEN EmptyVec
    ELSE LET c == p1.ret.val
             p2 == Vec_pop(p1.vec)
         IN  IF p2.ret # None
             THEN LET b == p2.ret.val
                      p3 == Vec_pop(p2.vec)
                  IN  IF p3.ret # None
                      THEN Ok(three(p3.ret.val, b, c))
                      ELSE Ok(two(b, c))
             ELSE Ok(one(c))

\* OneToThreeIter::new: idx = 0
OneToThreeIter_new == [live |-> TRUE, idx |-> 0]

\* next reading the slot after the increment
next_preincrement(idx, x, checks) ==
    IF checks /\ idx = UsizeMax
    THEN [idx |-> idx, ret |-> Panic]
    ELSE [idx |-> (idx + 1) % UsizeModulus, ret |-> get((idx + 1) % UsizeModulus, x)]

\* OneToThreeIter::next: i = idx; idx += 1; few.get(i).  The addition
\* overflows at idx = usize::MAX: a panic with overflow checks, else it wraps.
next(idx, x, checks) ==
    IF checks /\ idx = UsizeMax
    THEN [idx |-> idx, ret |-> Panic]
    ELSE [idx |-> (idx + 1) % UsizeModulus, ret |-> get(idx, x)]

----------------------------------------------------------------------------
(* SpecVec: one source Vec, converted to a NonEmptyVec (or viewed through a *)
(* NonEmptySlice first), then mutated.                                      *)

NoSlice == [slice |-> <<>>, ret |-> [kind |-> "NotCalled", val |-> 0]]
NoCall == [op |-> "none", idx |-> 0, val |-> 0, before |-> <<>>, ret |-> Unit]
NoFew == [tag |-> "NoFew"]
NoIter == [live |-> FALSE, idx |-> 0]

InitVec ==
    /\ src \in Vecs
    /\ phase = "source"
    /\ vec = <<>>
    /\ slice = NoSlice
    /\ last = NoCall
    /\ few = NoFew
    /\ iter = NoIter
    /\ yielded = <<>>
    /\ fout = NoCall
    /\ overflow_checks = FALSE

\* the effect of a call on the live NonEmptyVec whose outcome is r
Call(op, idx, val, r) ==
    /\ last' = [op |-> op, idx |-> idx, val |-> val, before |-> vec, ret |-> r.ret]
    /\ vec' = r.vec
    /\ phase' = IF r.ret = Panic THEN "panicked" ELSE "live"
    /\ UNCHANGED <<src, slice>>
    /\ UNCHANGED fewVars

\* NonEmptySlice::try_from(&src[..]): borrows the source, which stays as it is
SliceTryFrom ==
    /\ phase = "source"
    /\ slice' = NonEmptySlice_try_from(src)
    /\ UNCHANGED <<src, phase, vec, last>>
    /\ UNCHANGED fewVars

\* NonEmptyVec::try_from(src): the source is moved, so no borrow of it is left
VecTryFrom ==
    /\ phase = "source"
    /\ LET r == NonEmptyVec_try_from(src)
       IN  /\ last' = [op |-> "try_from", idx |-> 0, val |-> 0, before |-> src, ret |-> r.ret]
           /\ vec' = r.vec
           /\ phase' = IF r.ret = Unit THEN "live" ELSE "failed"
    /\ src' = <<>>
    /\ slice' = NoSlice
    /\ UNCHANGED fewVars

\* NonEmptyVec::from(value)
VecFrom ==
    /\ phase = "source"
    /\ \E value \in Elems :
         LET r == NonEmptyVec_from(value)
         IN  /\ last' = [op |-> "from", idx |-> 0, val |-> value, before |-> <<>>, ret |-> r.ret]
             /\ vec' = r.vec
             /\ phase' = "live"
    /\ src' = <<>>
    /\ slice' = NoSlice
    /\ UNCHANGED fewVars

Push ==
    /\ phase = "live"
    /\ Len(vec) < MaxLen
    /\ \E value \in Elems : Call("push", 0, value, push(vec, value))

Insert ==
    /\ phase = "live"
    /\ Len(vec) < MaxLen
    /\ \E idx \in Indices, value \in Elems : Call("insert", idx, value, insert(vec, idx, value))

Pop ==
    /\ phase = "live"
    /\ Call("pop", 0, 0, pop(vec))

Remove ==
    /\ phase = "live"
    /\ \E idx \in Indices : Call("remove", idx, 0, remove(vec, idx))

SwapRemove ==
    /\ phase = "live"
    /\ \E idx \in Indices : Call("swap_remove", idx, 0, swap_remove(vec, idx))

IndexMut ==
    /\ phase = "live"
    /\ \E index \in Indices, value \in Elems :
         Call("index_mut", index, value, index_mut(vec, index, value))

Take ==
    /\ phase = "live"
    /\ LET r == take(vec)
       IN  /\ last' = [op |-> "take", idx |-> 0, val |-> 0, before |-> vec, ret |-> r.ret]
           /\ vec' = r.vec
           /\ phase' = IF r.ret = Panic THEN "panicked" ELSE "taken"
    /\ UNCHANGED <<src, slice>>
    /\ UNCHANGED fewVars

NextVec ==
    \/ SliceTryFrom
    \/ VecTryFrom
    \/ VecFrom
    \/ Push
    \/ Insert
    \/ Pop
    \/ Remove
    \/ SwapRemove
    \/ IndexMut
    \/ Take

SpecVec == InitVec /\ [][NextVec]_vars

----------------------------------------------------------------------------
(* Properties of NonEmptyVec and NonEmptySlice, checked under SpecVec *)

Removals == {"pop", "remove", "swap_remove"}

\* C1: a constructed NonEmptyVec has length >= 1 in every state reached by
\* push, insert, pop, remove and swap_remove calls (at a panic too).
C1_LenAtLeastOne ==
    phase \in {"live", "panicked"} => NonEmptyVec_len(vec) >= 1

\* a removal brought a vector of two elements down to one
C1_Witness ==
    /\ phase = "live"
    /\ last.op \in Removals
    /\ Len(vec) = 1
    /\ Len(last.before) = 2

\* C2: pop() at length 1 returns None and leaves the content as it was; at
\* length n >= 2 it returns the last element and leaves the first n-1 in order.
C2_Pop ==
    last.op = "pop" =>
        IF Len(last.before) = 1
        THEN last.ret = None /\ vec = last.before
        ELSE /\ last.ret = Some(last.before[Len(last.before)])
             /\ vec = SubSeq(last.before, 1, Len(last.before) - 1)

\* the second pop of [1, 2]: None, and the 1 is still there
C2_Witness ==
    /\ last.op = "pop"
    /\ last.before = <<1>>
    /\ last.ret = None
    /\ vec = <<1>>

\* C3: remove(i) and swap_remove(i) at length 1 fail with NotEnoughElementsError
\* for every index i, and leave the single element as it was.
C3_RemoveAtOne ==
    (last.op \in {"remove", "swap_remove"} /\ Len(last.before) = 1) =>
        /\ last.ret = NotEnoughElementsError
        /\ vec = last.before
        /\ phase = "live"

\* swap_remove at length 1 with an index that is out of range as well
C3_Witness ==
    /\ last.op = "swap_remove"
    /\ Len(last.before) = 1
    /\ last.idx >= 1
    /\ last.ret = NotEnoughElementsError

C5_TryFromRoundTrip ==
    /\ last.op = "try_from" =>
           IF last.before = <<>>
           THEN last.ret = NotEnoughElementsError /\ phase = "failed"
           ELSE last.ret = Unit /\ phase = "live" /\ as_slice(vec) = last.before
    /\ slice # NoSlice =>
           IF src = <<>>
           THEN slice.ret = NotEnoughElementsError
           ELSE slice.ret = Unit /\ NonEmptySlice_as_slice(slice.slice) = src

\* a slice of several elements was built from the source
C5_Witness ==
    /\ slice.ret = Unit
    /\ Len(src) >= 2
    /\ slice.slice = src

----------------------------------------------------------------------------
(* SpecFew: one OneToThree, built by a constructor or a conversion, read,   *)
(* transformed, and iterated over.                                          *)

\* the transforms given to map: the rotations of the element values
MapFns == {[e \in FewElems |-> ((e + k) % MaxFewElem) + 1] : k \in {0, 1}}

\* the transforms given to try_map: one per set of rejected elements; a
\* rejected element e gives Err(e), an accepted one Ok of its mirror image
TryFns ==
    {[e \in FewElems |-> IF e \in rejected THEN Err(e) ELSE Ok(MaxFewElem + 1 - e)] :
        rejected \in SUBSET FewElems}

\* next() calls made on one iterator: enough to pass the counter's overflow
MaxCalls == UsizeModulus + 2

FewCall(op, idx, input, f, ret, calls) ==
    [op |-> op, idx |-> idx, input |-> input, f |-> f, ret |-> ret, calls |-> calls]

InitFew ==
    /\ src = <<>>
    /\ phase = "source"
    /\ vec = <<>>
    /\ slice = NoSlice
    /\ last = NoCall
    /\ few = NoFew
    /\ iter = NoIter
    /\ yielded = <<>>
    /\ fout = NoCall
    /\ overflow_checks \in BOOLEAN

\* the variable holds one value at a time: a value is built when there is none
\* (at the start, after a failed conversion, after the value was consumed)
Unbound == few = NoFew

\* a new value in the variable: an iterator over the old one is gone
Becomes(value, call) ==
    /\ few' = value
    /\ fout' = call
    /\ iter' = NoIter
    /\ yielded' = <<>>
    /\ UNCHANGED overflow_checks
    /\ UNCHANGED vecVars

NewOne ==
    /\ Unbound
    /\ \E a \in FewElems :
        Becomes(one(a), FewCall("one", 0, <<a>>, <<>>, Unit, <<>>))

NewTwo ==
    /\ Unbound
    /\ \E a \in FewElems, b \in FewElems :
        Becomes(two(a, b), FewCall("two", 0, <<a, b>>, <<>>, Unit, <<>>))

NewThree ==
    /\ Unbound
    /\ \E a \in FewElems, b \in FewElems, c \in FewElems :
        Becomes(three(a, b, c), FewCall("three", 0, <<a, b, c>>, <<>>, Unit, <<>>))

FewTryFrom ==
    /\ Unbound
    /\ \E v \in FewVecs :
        LET r == OneToThree_try_from(v)
        IN  Becomes(IF r.kind = "Ok" THEN r.val ELSE NoFew,
                    FewCall("try_from", 0, v, <<>>, r, <<>>))

Get ==
    /\ few # NoFew
    /\ \E i \in Indices :
         fout' = FewCall("get", i, few, <<>>, get(i, few), <<>>)
    /\ UNCHANGED <<few, iter, yielded, overflow_checks>>
    /\ UNCHANGED vecVars

ToVec ==
    /\ few # NoFew
    /\ Becomes(NoFew, FewCall("to_vec", 0, few, <<>>, Ok(to_vec(few)), <<>>))

Sorted ==
    /\ few # NoFew
    /\ Becomes(sorted(few), FewCall("sorted", 0, few, <<>>, Unit, <<>>))

Map ==
    /\ few # NoFew
    /\ \E f \in MapFns :
         Becomes(map(few, f), FewCall("map", 0, few, f, Unit, <<>>))

TryMap ==
    /\ few # NoFew
    /\ \E f \in TryFns :
         LET r == try_map(few, f)
         IN  Becomes(IF r.ret.kind = "Ok" THEN r.ret.val ELSE NoFew,
                     FewCall("try_map", 0, few, f, r.ret, r.calls))

\* few.iter()
Iter ==
    /\ few # NoFew
    /\ iter' = OneToThreeIter_new
    /\ yielded' = <<>>
    /\ fout' = FewCall("iter", 0, few, <<>>, Unit, <<>>)
    /\ UNCHANGED <<few, overflow_checks>>
    /\ UNCHANGED vecVars

\* it.next(): a panic ends the iterator
IterNext ==
    /\ iter.live
    /\ Len(yielded) < MaxCalls
    /\ LET r == next(iter.idx, few, overflow_checks)
       IN  /\ iter' = [live |-> r.ret # Panic, idx |-> r.idx]
           /\ yielded' = Append(yielded, r.ret)
           /\ fout' = FewCall("next", iter.idx, few, <<>>, r.ret, <<>>)
    /\ UNCHANGED <<few, overflow_checks>>
    /\ UNCHANGED vecVars

NextFew ==
    \/ NewOne
    \/ NewTwo
    \/ NewThree
    \/ FewTryFrom
    \/ Get
    \/ ToVec
    \/ Sorted
    \/ Map
    \/ TryMap
    \/ Iter
    \/ IterNext

SpecFew == InitFew /\ [][NextFew]_vars

----------------------------------------------------------------------------
(* Properties of OneToThree, checked under SpecFew *)

Count(e, s) == Cardinality({i \in 1..Len(s) : s[i] = e})

NonDecreasing(s) == \A i \in 1..Len(s), j \in 1..Len(s) : i < j => s[i] <= s[j]

\* C6: sorted() returns an instance of the same arity whose slots are in
\* non-decreasing order and are the same multiset as the input's slots.
C6_Sorted ==
    fout.op = "sorted" =>
        /\ few.tag = fout.input.tag
        /\ OneToThree_len(few) = OneToThree_len(fout.input)
        /\ NonDecreasing(to_vec(few))
        /\ \A e \in FewElems : Count(e, to_vec(few)) = Count(e, to_vec(fout.input))

\* a Three in decreasing order was sorted
C6_Witness ==
    /\ fout.op = "sorted"
    /\ fout.input = three(3, 2, 1)
    /\ few = three(1, 2, 3)

FailingSlots(x, f) == {i \in 1..OneToThree_len(x) : f[to_vec(x)[i]].kind = "Err"}

\* C7: try_map(f) applies f in slot order; on a failure the result is the
\* error of the lowest failing slot and f was applied to no later slot; with
\* no failure the result is Ok of the same arity, slot i holding f's result
\* for input slot i.
C7_TryMap ==
    fout.op = "try_map" =>
        LET x == fout.input
            f == fout.f
            slots == to_vec(x)
            failing == FailingSlots(x, f)
        IN  IF failing = {}
            THEN /\ fout.ret.kind = "Ok"
                 /\ few = fout.ret.val
                 /\ few.tag = x.tag
                 /\ \A i \in 1..Len(slots) : Ok(to_vec(few)[i]) = f[slots[i]]
                 /\ fout.calls = slots
            ELSE LET k == CHOOSE i \in failing : \A j \in failing : i <= j
                 IN  /\ fout.ret = f[slots[k]]
                     /\ fout.calls = SubSeq(slots, 1, k)

\* f failed on the second slot of a Three whose third slot fails too
C7_Witness ==
    /\ fout.op = "try_map"
    /\ fout.input = three(1, 2, 3)
    /\ FailingSlots(fout.input, fout.f) = {2, 3}
    /\ fout.ret = Err(2)
    /\ fout.calls = <<1, 2>>

\* C8: try_from(v) fails with the empty-source error for an empty v, and for
\* v of length 1, 2 or 3 gives the variant of arity len(v) with to_vec() = v.
C8_TryFromUpToThree ==
    (fout.op = "try_from" /\ Len(fout.input) <= 3) =>
        IF fout.input = <<>>
        THEN fout.ret = EmptyVec /\ few = NoFew
        ELSE /\ fout.ret.kind = "Ok"
             /\ few = fout.ret.val
             /\ OneToThree_len(few) = Len(fout.input)
             /\ to_vec(few) = fout.input

\* [1, 2, 3] became Three(1, 2, 3)
C8_Witness ==
    /\ fout.op = "try_from"
    /\ fout.input = <<1, 2, 3>>
    /\ few = three(1, 2, 3)

\* C9: try_from(v) of more than 3 elements does not fail: it gives the Three
\* of the last three elements of v in their order.
C9_TryFromTruncates ==
    (fout.op = "try_from" /\ Len(fout.input) > 3) =>
        /\ fout.ret.kind = "Ok"
        /\ few = fout.ret.val
        /\ few.tag = "Three"
        /\ to_vec(few) = SubSeq(fout.input, Len(fout.input) - 2, Len(fout.input))

\* the two front elements of a Vec of five were dropped
C9_Witness ==
    /\ fout.op = "try_from"
    /\ fout.input = <<1, 1, 2, 3, 1>>
    /\ few = three(2, 3, 1)

\* what get(i) is to return: slot i below the arity, None from there on
Slot(x, i) == IF i < OneToThree_len(x) THEN Some(to_vec(x)[i + 1]) ELSE None

GetGivesSlot == fout.op = "get" => fout.ret = Slot(few, fout.idx)

\* C10 as stated: get(i) is slot i for i < len() and None for i >= len(); an
\* iterator yields get(0), ..., get(len-1), then None on every later call,
\* whatever the number of calls; x is not modified.
C10_NoneForEver ==
    /\ GetGivesSlot
    /\ \A k \in 1..Len(yielded) : yielded[k] = Slot(few, k - 1)
    /\ fout.op \in {"get", "next"} => few = fout.input

\* C10 amended: the same for the first usize::MAX calls of next() on one
\* iterator.  The call after them overflows the counter idx: a panic where
\* overflow is checked; where it wraps, that call still returns None and the
\* calls after it yield the slots from slot 0 again.
C10_NoneUntilOverflow ==
    /\ GetGivesSlot
    /\ \A k \in 1..Len(yielded) : k <= UsizeMax => yielded[k] = Slot(few, k - 1)
    /\ fout.op \in {"get", "next"} => few = fout.input
    /\ (Len(yielded) > UsizeMax /\ overflow_checks) => yielded[UsizeMax + 1] = Panic
    /\ \A k \in 1..Len(yielded) :
           (k > UsizeMax /\ ~overflow_checks) => yielded[k] = Slot(few, (k - 1) % UsizeModulus)

\* an iterator over a Two gave its two slots and then None up to the last
\* call before the overflow
C10_Witness ==
    /\ few.tag = "Two"
    /\ Len(yielded) = UsizeMax
    /\ yielded[2] = Some(few.b)
    /\ yielded[UsizeMax] = None

====
